---- MODULE Spec2Model ----
(***************************************************************************)
(* The tool-call loop of app.py: extract_tool_call (regex extraction,      *)
(* install_missing_imports, the three-attempt exec loop under              *)
(* redirect_stdout, report formatting), run by the request threads of the  *)
(* Flask server, and send_prompt, the handler of POST /send that calls it  *)
(* between its two model invocations.                                      *)
(*                                                                         *)
(* A text is a sequence of lexemes (a fence, a tag, a newline, one Python  *)
(* statement, a word of prose); strings of the program (the iteration log, *)
(* a captured output, the report) are sequences of string pieces.          *)
(***************************************************************************)
EXTENDS Integers, Naturals, Sequences, FiniteSets, TLC

VARIABLES
    sys_stdout,     \* the process-wide sys.stdout: the stream object it names
    ns,             \* globals(): the names bound by executed code
    installed,      \* the modules importlib.util.find_spec can resolve
    pc,             \* per thread: position inside extract_tool_call
    text,           \* per thread: the argument of extract_tool_call
    code,           \* per thread: local code
    lineno,         \* per thread: index of the line install_missing_imports is at
    iteration_log,  \* per thread: local iteration_log
    attempts,       \* per thread: local attempts
    output,         \* per thread: local output
    f,              \* per thread: contents of the attempt's io.StringIO
    old,            \* per thread: redirect_stdout._old_targets (the saved stream)
    ip,             \* per thread: next statement of the running exec
    exc,            \* per thread: the exception in flight, <<class, message>>
    result,         \* per thread: value returned by extract_tool_call
    calls,          \* per thread: calls made by this invocation (observation)
    runs,           \* per thread: one record per ended attempt (observation)
    handler,        \* per thread: position inside send_prompt
    streaming,      \* per thread: data.get("stream") of the request
    response_text,  \* per thread: local response_text (full_response when streaming)
    tool_output,    \* per thread: local tool_output
    chats,          \* per thread: the calls of chat made for the request (observation)
    sent            \* per thread: what the client has received, in pieces

\* the locals of send_prompt
request == <<handler, streaming, response_text, tool_output, chats, sent>>

vars == <<sys_stdout, ns, installed, pc, text, code, lineno, iteration_log,
          attempts, output, f, old, ip, exc, result, calls, runs, handler,
          streaming, response_text, tool_output, chats, sent>>

shared == <<sys_stdout, ns, installed>>

----------------------------------------------------------------------------
(* Bounds *)

NumThreads == 2
MaxTextLen == 4
MaxStmts == 2

Threads == 1..NumThreads

----------------------------------------------------------------------------
(* Lexemes *)

\* the triple-backtick delimiter, written <fence>: the parser mishandles a
\* backtick inside a string
Fence == "<fence>"
Tags == {"tool_code", "python"}
Newline == "\n"
Prose == "Here:"

PrintHi == "print('hi')"
PrintBlank == "print()"
PrintError == "print('Error: boom')"
RaiseValueError == "raise ValueError('x')"
SysExit == "sys.exit('bye')"
AssignV == "v = 1"
PrintV == "print(v)"
InitOrPrintV == "print(v) if 'v' in globals() else globals().update(v=1)"
ImportOs == "import os"
ImportPkg == "import pkg.sub"
FromRelative == "from . import x"
ImportMain == "import __main__"

ImportStmts == {ImportOs, ImportPkg, ImportMain}
FromStmts == {FromRelative}
Statements == {PrintHi, PrintBlank, PrintError, RaiseValueError, SysExit,
               AssignV, PrintV, InitOrPrintV} \cup ImportStmts \cup FromStmts

\* str.isspace on a lexeme
IsSpace(tok) == tok = Newline

Min(S) == CHOOSE x \in S : \A y \in S : x <= y

RECURSIVE lstrip(_)
lstrip(s) == IF s # <<>> /\ IsSpace(Head(s)) THEN lstrip(Tail(s)) ELSE s

RECURSIVE rstrip(_)
rstrip(s) ==
    IF s # <<>> /\ IsSpace(s[Len(s)]) THEN rstrip(SubSeq(s, 1, Len(s) - 1)) ELSE s

\* str.strip()
strip(s) == rstrip(lstrip(s))

----------------------------------------------------------------------------
(* re.search(pattern, text, re.DOTALL), pattern = fence, tag, \s*, lazy   *)
(* group 1, \s*, fence                                                    *)

\* OpensAt with the tag alternation left out of the pattern
OpensAt_AnyFence(txt, i) == i + 1 <= Len(txt) /\ txt[i] = Fence

\* the opening fence with its tag matches at position i
OpensAt(txt, i) == i + 1 <= Len(txt) /\ txt[i] = Fence /\ txt[i + 1] \in Tags

\* the positions where the closing fence can match for an opening at i
Closings(txt, i) == {j \in (i + 2)..Len(txt) : txt[j] = Fence}

\* the start positions at which the whole pattern matches
MatchStarts(txt) == {i \in 1..Len(txt) : OpensAt(txt, i) /\ Closings(txt, i) # {}}

NoMatch == [found |-> FALSE, group1 |-> <<>>]

\* re_search with a greedy group: (.*) runs to the last closing fence
re_search_Greedy(txt) ==
    IF MatchStarts(txt) = {} THEN NoMatch
    ELSE LET i == Min(MatchStarts(txt))
             j == CHOOSE c \in Closings(txt, i) : \A d \in Closings(txt, i) : d <= c
         IN  [found |-> TRUE, group1 |-> rstrip(lstrip(SubSeq(txt, i + 2, j - 1)))]

\* leftmost match; \s* eats the leading whitespace, the lazy (.*?) stops at
\* the nearest closing fence and leaves the trailing whitespace to \s*
re_search(txt) ==
    IF MatchStarts(txt) = {} THEN NoMatch
    ELSE LET i == Min(MatchStarts(txt))
             j == Min(Closings(txt, i))
         IN  [found |-> TRUE, group1 |-> rstrip(lstrip(SubSeq(txt, i + 2, j - 1)))]

----------------------------------------------------------------------------
(* Python text helpers *)

\* the lexemes before the first newline of s
RECURSIVE FirstLine(_)
FirstLine(s) ==
    IF s = <<>> \/ Head(s) = Newline THEN <<>> ELSE <<Head(s)>> \o FirstLine(Tail(s))

\* str.splitlines(): the lines of s, each a sequence of lexemes
RECURSIVE splitlines(_)
splitlines(s) ==
    IF s = <<>> THEN <<>>
    ELSE LET l == FirstLine(s)
             rest == SubSeq(s, Len(l) + 2, Len(s))
         IN  <<l>> \o splitlines(rest)

\* parts[1].split("."), for the import and from statements
DottedName(stmt) ==
    CASE stmt = ImportOs -> <<"os">>
      [] stmt = ImportPkg -> <<"pkg", "sub">>
      [] stmt = FromRelative -> <<"", "">>
      [] stmt = ImportMain -> <<"__main__">>

----------------------------------------------------------------------------
(* Streams: sys.stdout names the console, the StringIO of a running        *)
(* attempt, or a StringIO no attempt reads any more                        *)

Console == <<"console", 0>>
StringIO(t) == <<"StringIO", t>>
Stale == <<"StringIO", 0>>
Streams == {Console, Stale} \cup {StringIO(t) : t \in Threads}

\* the buffers after stream.write(pieces)
Written(stream, pieces) ==
    [u \in Threads |-> IF stream = StringIO(u) THEN f[u] \o pieces ELSE f[u]]

----------------------------------------------------------------------------
(* The environment of install_missing_imports *)

\* importlib.util.find_spec raises ValueError on a loaded module whose
\* __spec__ is None, as __main__ is when app.py runs as a script
ProbeRaises == {"__main__"}
\* the names pip can install; it may still fail on them
Installable == {"pkg"}
\* resolvable from the start
Preinstalled == {"os"}

NoExc == <<"", "">>

FindSpecError == <<"ValueError", "__main__.__spec__ is None">>

\* print(f"Error installing {module}: {e}")
InstallErrorMessage(module) == <<"Error", " installing " \o module \o ": failed", Newline>>

----------------------------------------------------------------------------
(* exec(code, globals()) *)

\* a line compiles when it is empty or holds one statement; a tag alone on a
\* line is an expression statement naming an unbound variable
Executable == Statements \cup Tags
Compiles(c) ==
    \A i \in 1..Len(splitlines(c)) :
        LET l == splitlines(c)[i]
        IN  l = <<>> \/ (Len(l) = 1 /\ l[1] \in Executable)

\* the statements of the program, in order
RECURSIVE Flatten(_)
Flatten(ls) == IF ls = <<>> THEN <<>> ELSE Head(ls) \o Flatten(Tail(ls))
Program(c) == Flatten(splitlines(c))

SyntaxError == <<"SyntaxError", "invalid syntax">>

\* one statement run in namespace g with the modules inst resolvable:
\* what it prints, the namespace after it, the exception it raises
Effect(stmt, g, inst) ==
    CASE stmt = PrintHi -> [out |-> <<"hi", Newline>>, ns |-> g, exc |-> NoExc]
      [] stmt = PrintBlank -> [out |-> <<Newline>>, ns |-> g, exc |-> NoExc]
      [] stmt = PrintError ->
            [out |-> <<"Error", ": boom", Newline>>, ns |-> g, exc |-> NoExc]
      [] stmt = RaiseValueError ->
            [out |-> <<>>, ns |-> g, exc |-> <<"ValueError", "x">>]
      [] stmt = SysExit -> [out |-> <<>>, ns |-> g, exc |-> <<"SystemExit", "bye">>]
      [] stmt = AssignV -> [out |-> <<>>, ns |-> g \cup {"v"}, exc |-> NoExc]
      [] stmt = PrintV ->
            IF "v" \in g THEN [out |-> <<"1", Newline>>, ns |-> g, exc |-> NoExc]
            ELSE [out |-> <<>>, ns |-> g,
                  exc |-> <<"NameError", "name 'v' is not defined">>]
      [] stmt = InitOrPrintV ->
            IF "v" \in g THEN [out |-> <<"1", Newline>>, ns |-> g, exc |-> NoExc]
            ELSE [out |-> <<>>, ns |-> g \cup {"v"}, exc |-> NoExc]
      [] stmt = ImportOs -> [out |-> <<>>, ns |-> g, exc |-> NoExc]
      [] stmt = ImportPkg ->
            IF "pkg" \in inst THEN [out |-> <<>>, ns |-> g \cup {"pkg"}, exc |-> NoExc]
            ELSE [out |-> <<>>, ns |-> g,
                  exc |-> <<"ModuleNotFoundError", "No module named 'pkg'">>]
      [] stmt = FromRelative ->
            [out |-> <<>>, ns |-> g,
             exc |-> <<"ImportError",
                       "attempted relative import with no known parent package">>]
      [] stmt = ImportMain -> [out |-> <<>>, ns |-> g, exc |-> NoExc]
      [] stmt \in Tags ->
            [out |-> <<>>, ns |-> g,
             exc |-> <<"NameError", "name '" \o stmt \o "' is not defined">>]

\* exec given a new dictionary at every call
Globals_Fresh(g) == {}

\* line 125, globals(): the dictionary of the module itself, not a copy
Globals(g) == g

\* the classes that do not derive from Exception
BaseOnly == {"SystemExit", "KeyboardInterrupt", "GeneratorExit"}

\* except Exception as e
Catches(e) == e[1] \notin BaseOnly

----------------------------------------------------------------------------
(* The retry loop of extract_tool_call *)

max_attempts == 3

\* ExecutingLine written before attempts is incremented
ExecutingLine_BeforeIncrement(n) ==
    "Iteration " \o ToString(n - 1) \o ": Executing code...\n"

ExecutingLine(n) == "Iteration " \o ToString(n) \o ": Executing code...\n"
ErrorOrEmptyLine(n) ==
    "Iteration " \o ToString(n) \o " produced an error or empty output.\n"
SuccessfulLine(n) == "Iteration " \o ToString(n) \o " successful.\n"
RaisedLine(n, msg) ==
    "Iteration " \o ToString(n) \o " raised an exception: " \o msg \o "\n"

\* "Error" in output
ContainsError(out) == \E i \in 1..Len(out) : out[i] = "Error"

\* IsSuccessful with the strip() left out of the emptiness test
IsSuccessful_NoStrip(out) == ~(ContainsError(out) \/ out = <<>>)

\* the else branch of: if "Error" in output or output.strip() == ""
IsSuccessful(out) == ~(ContainsError(out) \/ strip(out) = <<>>)

\* f"Error: {str(e)}"
ErrorOutput(e) == <<"Error", ": ", e[2]>>

\* LoopContinues with <= for <
LoopContinues_OffByOne(n) == n <= max_attempts

\* while attempts < max_attempts
LoopContinues(n) == n < max_attempts

\* how an attempt that ended with exception e (NoExc: none) and captured
\* output out is handled: lines 126-134
Outcome(e, out) ==
    IF e = NoExc THEN (IF IsSuccessful(out) THEN "successful" ELSE "error or empty")
    ELSE IF Catches(e) THEN "raised"
    ELSE "propagates"

\* the line the attempt n adds to iteration_log, if any
OutcomeLines(n, e, out) ==
    CASE Outcome(e, out) = "successful" -> <<SuccessfulLine(n)>>
      [] Outcome(e, out) = "error or empty" -> <<ErrorOrEmptyLine(n)>>
      [] Outcome(e, out) = "raised" -> <<RaisedLine(n, e[2])>>
      [] Outcome(e, out) = "propagates" -> <<>>

\* NextOutput with output assigned only on the successful branch
NextOutput_OnlyOnSuccess(e, out, prev) ==
    IF e = NoExc
    THEN (IF IsSuccessful(out) THEN out ELSE prev)
    ELSE (IF Catches(e) THEN ErrorOutput(e) ELSE prev)

\* the value of output after the attempt, prev being its value before
NextOutput(e, out, prev) ==
    CASE Outcome(e, out) \in {"successful", "error or empty"} -> out
      [] Outcome(e, out) = "raised" -> ErrorOutput(e)
      [] Outcome(e, out) = "propagates" -> prev

\* NextPc with the break left out
NextPc_NoBreak(o) == IF o = "propagates" THEN "escaped" ELSE "loop"

\* NextPc with the dependency pass repeated before every retry
NextPc_Reinstall(o) ==
    CASE o = "successful" -> "format"
      [] o \in {"error or empty", "raised"} -> "install"
      [] o = "propagates" -> "escaped"

\* where control goes: break, the next loop test, or out of the function
NextPc(o) ==
    CASE o = "successful" -> "format"
      [] o \in {"error or empty", "raised"} -> "loop"
      [] o = "propagates" -> "escaped"

FinalOutputMarker == "\nFinal Output:\n"
PreOpen == "<pre><code class='hljs'>"
PreClose == "</code></pre>"

\* final_message wrapped for display
Report(log, out) == <<PreOpen>> \o log \o <<FinalOutputMarker>> \o out \o <<PreClose>>

\* the return value when no block is found
None == <<>>

----------------------------------------------------------------------------
(* Inputs *)

TextAlphabet == {Fence, Newline, Prose, PrintHi} \cup Tags

RECURSIVE SeqsUpTo(_, _)
SeqsUpTo(S, n) ==
    IF n = 0 THEN {<<>>}
    ELSE LET shorter == SeqsUpTo(S, n - 1)
         IN  shorter \cup {Append(s, x) : s \in shorter, x \in S}

\* every text of at most MaxTextLen lexemes
FreeTexts == SeqsUpTo(TextAlphabet, MaxTextLen)

\* every program of 1..MaxStmts statements
Programs == SeqsUpTo(Statements, MaxStmts) \ {<<>>}

RECURSIVE JoinLines(_)
JoinLines(p) ==
    IF Len(p) <= 1 THEN p ELSE <<Head(p), Newline>> \o JoinLines(Tail(p))

\* a model response carrying the program in one fenced block
Wrap(p) == <<Prose, Newline, Fence, "python", Newline>> \o JoinLines(p) \o <<Newline, Fence>>

\* a further fenced block, after some prose
Another(p) == <<Newline, Prose, Newline, Fence, "tool_code", Newline>> \o JoinLines(p) \o <<Newline, Fence>>

\* responses carrying two or three fenced blocks
FirstPrograms == {<<PrintHi>>, <<PrintBlank>>, <<RaiseValueError>>, <<ImportPkg, PrintHi>>}
LaterPrograms == {<<PrintError>>, <<SysExit>>, <<AssignV, PrintV>>, <<ImportMain>>}
TwoBlockTexts == {Wrap(p) \o Another(q) : p \in FirstPrograms, q \in LaterPrograms}
ThreeBlockTexts == {Wrap(p) \o Another(q) \o Another(p) : p \in FirstPrograms, q \in {<<SysExit>>}}

Texts == FreeTexts \cup {Wrap(p) : p \in Programs} \cup TwoBlockTexts \cup ThreeBlockTexts

\* the responses served while another request is in flight
ThreadPrograms == {<<PrintHi>>, <<PrintBlank>>, <<RaiseValueError>>}
ThreadTexts == {<<Prose>>} \cup {Wrap(p) : p \in ThreadPrograms}

----------------------------------------------------------------------------
(* State *)

\* probed: the names given to find_spec; ran: the statements exec has run
NoCalls == [find_spec |-> 0, pip |-> 0, exec |-> 0, probed |-> <<>>, ran |-> <<>>]

Init ==
    /\ sys_stdout = Console
    /\ ns = {}
    /\ installed = Preinstalled
    /\ pc = [t \in Threads |-> "idle"]
    /\ text = [t \in Threads |-> <<>>]
    /\ code = [t \in Threads |-> <<>>]
    /\ lineno = [t \in Threads |-> 0]
    /\ iteration_log = [t \in Threads |-> <<>>]
    /\ attempts = [t \in Threads |-> 0]
    /\ output = [t \in Threads |-> <<>>]
    /\ f = [t \in Threads |-> <<>>]
    /\ old = [t \in Threads |-> Console]
    /\ ip = [t \in Threads |-> 0]
    /\ exc = [t \in Threads |-> NoExc]
    /\ result = [t \in Threads |-> None]
    /\ calls = [t \in Threads |-> NoCalls]
    /\ runs = [t \in Threads |-> <<>>]
    /\ handler = [t \in Threads |-> "idle"]
    /\ streaming = [t \in Threads |-> FALSE]
    /\ response_text = [t \in Threads |-> <<>>]
    /\ tool_output = [t \in Threads |-> None]
    /\ chats = [t \in Threads |-> <<>>]
    /\ sent = [t \in Threads |-> <<>>]

----------------------------------------------------------------------------
(* extract_tool_call(text), thread t *)

\* lines 110-113 and 137: the search; no match returns None
Call(t, txt) ==
    /\ pc[t] = "idle"
    /\ text' = [text EXCEPT ![t] = txt]
    /\ LET match == re_search(txt)
       IN  IF match.found
           THEN /\ code' = [code EXCEPT ![t] = strip(match.group1)]
                /\ lineno' = [lineno EXCEPT ![t] = 1]
                /\ pc' = [pc EXCEPT ![t] = "install"]
                /\ UNCHANGED result
           ELSE /\ result' = [result EXCEPT ![t] = None]
                /\ pc' = [pc EXCEPT ![t] = "returned"]
                /\ UNCHANGED <<code, lineno>>
    /\ UNCHANGED <<shared, iteration_log, attempts, output, f, old, ip, exc,
                   calls, runs>>

\* lines 79-99: one line of install_missing_imports; past the last line,
\* lines 115-118
InstallLine(t) ==
    /\ pc[t] = "install"
    /\ LET lines == splitlines(code[t])
       IN  IF lineno[t] > Len(lines)
           THEN /\ iteration_log' = [iteration_log EXCEPT ![t] = <<>>]
                /\ attempts' = [attempts EXCEPT ![t] = 0]
                /\ output' = [output EXCEPT ![t] = <<>>]
                /\ pc' = [pc EXCEPT ![t] = "loop"]
                /\ UNCHANGED <<installed, lineno, f, exc, calls>>
           ELSE /\ UNCHANGED <<iteration_log, attempts, output>>
                /\ LET line == strip(lines[lineno[t]])
                   IN  IF line # <<>> /\ Head(line) \in ImportStmts \cup FromStmts
                       THEN LET module == Head(DottedName(Head(line)))
                            IN  IF module \in ProbeRaises
                                THEN /\ exc' = [exc EXCEPT ![t] = FindSpecError]
                                     /\ pc' = [pc EXCEPT ![t] = "escaped"]
                                     /\ calls' = [calls EXCEPT ![t].find_spec = @ + 1,
                                                               ![t].probed = Append(@, module)]
                                     /\ UNCHANGED <<installed, lineno, f>>
                                ELSE IF module \in installed
                                THEN /\ lineno' = [lineno EXCEPT ![t] = @ + 1]
                                     /\ calls' = [calls EXCEPT ![t].find_spec = @ + 1,
                                                               ![t].probed = Append(@, module)]
                                     /\ UNCHANGED <<installed, f, exc, pc>>
                                ELSE /\ lineno' = [lineno EXCEPT ![t] = @ + 1]
                                     /\ calls' = [calls EXCEPT ![t].find_spec = @ + 1,
                                                               ![t].probed = Append(@, module),
                                                               ![t].pip = @ + 1]
                                     /\ \E ok \in {b \in BOOLEAN : b => module \in Installable} :
                                           IF ok
                                           THEN /\ installed' = installed \cup {module}
                                                /\ UNCHANGED f
                                           ELSE /\ f' = Written(sys_stdout,
                                                                InstallErrorMessage(module))
                                                /\ UNCHANGED installed
                                     /\ UNCHANGED <<exc, pc>>
                       ELSE /\ lineno' = [lineno EXCEPT ![t] = @ + 1]
                            /\ UNCHANGED <<installed, f, exc, calls, pc>>
    /\ UNCHANGED request
    /\ UNCHANGED <<sys_stdout, ns, text, code, old, ip, result, runs>>

\* lines 119-122 and the first half of redirect_stdout.__enter__ (it saves
\* sys.stdout); with the budget spent, the loop ends
BeginAttempt(t) ==
    /\ pc[t] = "loop"
    /\ IF LoopContinues(attempts[t])
       THEN /\ attempts' = [attempts EXCEPT ![t] = @ + 1]
            /\ iteration_log' = [iteration_log EXCEPT
                                    ![t] = Append(@, ExecutingLine(attempts[t] + 1))]
            /\ f' = [f EXCEPT ![t] = <<>>]
            /\ old' = [old EXCEPT ![t] = sys_stdout]
            /\ pc' = [pc EXCEPT ![t] = "redirect"]
       ELSE /\ pc' = [pc EXCEPT ![t] = "format"]
            /\ UNCHANGED <<attempts, iteration_log, f, old>>
    /\ UNCHANGED request
    /\ UNCHANGED <<shared, text, code, lineno, output, ip, exc, result, calls, runs>>

\* line 124: the second half of __enter__ sets sys.stdout; line 125 calls exec
Redirect(t) ==
    /\ pc[t] = "redirect"
    /\ sys_stdout' = StringIO(t)
    /\ ip' = [ip EXCEPT ![t] = 1]
    /\ exc' = [exc EXCEPT ![t] = NoExc]
    /\ calls' = [calls EXCEPT ![t].exec = @ + 1]
    /\ pc' = [pc EXCEPT ![t] = "exec"]
    /\ UNCHANGED request
    /\ UNCHANGED <<ns, installed, text, code, lineno, iteration_log, attempts,
                   output, f, old, result, runs>>

\* line 125: exec compiles the code, then runs one statement per step
ExecStep(t) ==
    /\ pc[t] = "exec"
    /\ IF ~Compiles(code[t])
       THEN /\ exc' = [exc EXCEPT ![t] = SyntaxError]
            /\ pc' = [pc EXCEPT ![t] = "restore"]
            /\ UNCHANGED <<ns, f, ip, calls>>
       ELSE IF ip[t] > Len(Program(code[t]))
       THEN /\ pc' = [pc EXCEPT ![t] = "restore"]
            /\ UNCHANGED <<ns, f, ip, exc, calls>>
       ELSE LET stmt == Program(code[t])[ip[t]]
                e == Effect(stmt, Globals(ns), installed)
            IN  /\ f' = Written(sys_stdout, e.out)
                /\ ns' = e.ns
                /\ calls' = [calls EXCEPT ![t].ran = Append(@, stmt)]
                /\ IF e.exc = NoExc
                   THEN /\ ip' = [ip EXCEPT ![t] = @ + 1]
                        /\ UNCHANGED <<exc, pc>>
                   ELSE /\ exc' = [exc EXCEPT ![t] = e.exc]
                        /\ pc' = [pc EXCEPT ![t] = "restore"]
                        /\ UNCHANGED ip
    /\ UNCHANGED request
    /\ UNCHANGED <<sys_stdout, installed, text, code, lineno, iteration_log,
                   attempts, output, old, result, runs>>

\* RestoredStream without the restore on the exception path
RestoredStream_OnlyOnReturn(t) == IF exc[t] = NoExc THEN old[t] ELSE sys_stdout

\* redirect_stdout.__exit__: the stream put back into sys.stdout
RestoredStream(t) == old[t]

\* lines 126-134: the with block is left (sys.stdout is put back), then the
\* attempt is classified; an exception except Exception does not catch
\* leaves extract_tool_call
EndAttempt(t) ==
    /\ pc[t] = "restore"
    /\ sys_stdout' = RestoredStream(t)
    /\ old' = [u \in Threads |-> IF u # t /\ old[u] = StringIO(t) THEN Stale ELSE old[u]]
    /\ runs' = [runs EXCEPT ![t] = Append(@, [exc |-> exc[t], captured |-> f[t]])]
    /\ f' = [f EXCEPT ![t] = <<>>]
    /\ output' = [output EXCEPT ![t] = NextOutput(exc[t], f[t], @)]
    /\ iteration_log' = [iteration_log EXCEPT
                            ![t] = @ \o OutcomeLines(attempts[t], exc[t], f[t])]
    /\ pc' = [pc EXCEPT ![t] = NextPc(Outcome(exc[t], f[t]))]
    /\ UNCHANGED request
    /\ UNCHANGED <<ns, installed, text, code, lineno, attempts, ip, exc, result, calls>>

\* lines 135-136
Format(t) ==
    /\ pc[t] = "format"
    /\ result' = [result EXCEPT ![t] = Report(iteration_log[t], output[t])]
    /\ pc' = [pc EXCEPT ![t] = "returned"]
    /\ UNCHANGED request
    /\ UNCHANGED <<shared, text, code, lineno, iteration_log, attempts, output,
                   f, old, ip, exc, calls, runs>>

\* the caller has the return value (or the exception): the frame is gone
\* the frame of the invocation is dropped
Return(t) ==
    /\ pc[t] \in {"returned", "escaped"}
    /\ pc' = [pc EXCEPT ![t] = "idle"]
    /\ text' = [text EXCEPT ![t] = <<>>]
    /\ code' = [code EXCEPT ![t] = <<>>]
    /\ lineno' = [lineno EXCEPT ![t] = 0]
    /\ iteration_log' = [iteration_log EXCEPT ![t] = <<>>]
    /\ attempts' = [attempts EXCEPT ![t] = 0]
    /\ output' = [output EXCEPT ![t] = <<>>]
    /\ ip' = [ip EXCEPT ![t] = 0]
    /\ exc' = [exc EXCEPT ![t] = NoExc]
    /\ result' = [result EXCEPT ![t] = None]
    /\ calls' = [calls EXCEPT ![t] = NoCalls]
    /\ runs' = [runs EXCEPT ![t] = <<>>]
    /\ UNCHANGED <<shared, f, old>>

\* the caller takes the result, or the exception
Release(t) == Return(t) /\ UNCHANGED request

Step(t) ==
    \/ InstallLine(t)
    \/ BeginAttempt(t)
    \/ Redirect(t)
    \/ ExecStep(t)
    \/ EndAttempt(t)
    \/ Format(t)
    \/ Release(t)

\* one request at a time
CallAlone(t) ==
    /\ \A u \in Threads : pc[u] = "idle"
    /\ \E txt \in Texts : Call(t, txt)
    /\ UNCHANGED request

\* a request arriving whatever the other threads do
CallThreaded(t) == (\E txt \in ThreadTexts : Call(t, txt)) /\ UNCHANGED request

Next == \E t \in Threads : CallAlone(t) \/ Step(t)

Spec == Init /\ [][Next]_vars

NextThreads == \E t \in Threads : CallThreaded(t) \/ Step(t)

SpecThreads == Init /\ [][NextThreads]_vars

----------------------------------------------------------------------------
(* send_prompt(), the handler of POST /send, thread t *)

ThinkOpen == "<think>"
ThinkClose == "</think>"

\* str.find(tag): the index of the first occurrence, -1 when there is none
find(txt, tag) ==
    LET at == {i \in 1..Len(txt) : txt[i] = tag}
    IN  IF at = {} THEN -1 ELSE Min(at)

\* lines 65-72: the inside of the first think element when there is one,
\* else the whole text, stripped
extract_think(txt) ==
    LET start == find(txt, ThinkOpen)
        end == find(txt, ThinkClose)
    IN  IF start # -1 /\ end # -1 /\ end > start
        THEN strip(SubSeq(txt, start + 1, end - 1))
        ELSE strip(txt)

\* lines 706-716: the prompt built from the request
Prompt == <<"What is 2+2?">>

\* the exception of a chat call that fails
ChatError == <<"ConnectionError", "Failed to connect to Ollama">>

CallingModelError(e) == <<"Error calling model: ", e[2]>>
SecondaryError(e) == <<"Error in secondary inference: ", e[2]>>

Message(role, content) == [role |-> role, content |-> content]

FirstMessages(prompt) == <<Message("user", prompt)>>

\* the second message list with the report given as the assistant's turn
SecondMessages_ReportAsAssistant(prompt, response, report) ==
    <<Message("user", prompt), Message("assistant", report), Message("user", response)>>

\* lines 731-735 and 752-756
SecondMessages(prompt, response, report) ==
    <<Message("user", prompt), Message("assistant", response), Message("user", report)>>

\* if tool_output: neither None nor the empty string
Truthy(v) == v # None

\* what the model answers to the prompt, and to the second message list
FirstResponses ==
    {<<Prose>>, Wrap(<<PrintHi>>), Wrap(<<PrintBlank>>), Wrap(<<SysExit>>),
     Wrap(<<InitOrPrintV>>), Wrap(<<ImportPkg, PrintHi>>),
     <<ThinkOpen, Prose, ThinkClose, Newline, PrintHi>>}
SecondResponses == {<<Prose>>, <<ThinkOpen, Prose, ThinkClose, "4">>, Wrap(<<PrintHi>>)}

\* the variables of extract_tool_call
frame == <<pc, text, code, lineno, iteration_log, attempts, output, f, old, ip,
           exc, result, calls, runs>>

\* lines 697-720: a request arrives, streamed or not
Receive(t) ==
    /\ \A u \in Threads : handler[u] = "idle"
    /\ \E s \in BOOLEAN : streaming' = [streaming EXCEPT ![t] = s]
    /\ handler' = [handler EXCEPT ![t] = "chat"]
    /\ UNCHANGED <<shared, frame, response_text, tool_output, chats, sent>>

\* lines 722-727: the streamed first call, outside any try; each chunk is
\* yielded as it comes, and the call can fail after any number of chunks.
\* lines 744-748: the first call inside try/except
FirstChat(t) ==
    /\ handler[t] = "chat"
    /\ IF streaming[t]
       THEN \E r \in FirstResponses, raised \in BOOLEAN :
               \E k \in {n \in 0..Len(r) : ~raised => n = Len(r)} :
                  /\ chats' = [chats EXCEPT ![t] =
                                  Append(@, [messages |-> FirstMessages(Prompt),
                                             stream |-> TRUE, raised |-> raised])]
                  /\ sent' = [sent EXCEPT ![t] = SubSeq(r, 1, k)]
                  /\ response_text' = [response_text EXCEPT ![t] = SubSeq(r, 1, k)]
                  /\ handler' = [handler EXCEPT ![t] = IF raised THEN "fault" ELSE "tool"]
       ELSE \E r \in FirstResponses, raised \in BOOLEAN :
               /\ chats' = [chats EXCEPT ![t] =
                               Append(@, [messages |-> FirstMessages(Prompt),
                                          stream |-> FALSE, raised |-> raised])]
               /\ response_text' = [response_text EXCEPT ![t] =
                                       IF raised THEN CallingModelError(ChatError) ELSE r]
               /\ handler' = [handler EXCEPT ![t] = "tool"]
               /\ UNCHANGED sent
    /\ UNCHANGED <<shared, frame, streaming, tool_output>>

\* lines 729 and 750: extract_tool_call is called with the first response
ToolCall(t) ==
    /\ handler[t] = "tool"
    /\ Call(t, response_text[t])
    /\ handler' = [handler EXCEPT ![t] = "running"]
    /\ UNCHANGED <<streaming, response_text, tool_output, chats, sent>>

\* lines 729 and 750: extract_tool_call has returned, tool_output is bound
AfterTool(t) ==
    /\ handler[t] = "running"
    /\ pc[t] = "returned"
    /\ tool_output' = [tool_output EXCEPT ![t] = result[t]]
    /\ handler' = [handler EXCEPT ![t] = "branch"]
    /\ Return(t)
    /\ UNCHANGED <<streaming, response_text, chats, sent>>

\* lines 729 and 750: an exception that left extract_tool_call leaves the
\* handler as well
ToolFault(t) ==
    /\ handler[t] = "running"
    /\ pc[t] = "escaped"
    /\ handler' = [handler EXCEPT ![t] = "fault"]
    /\ Return(t)
    /\ UNCHANGED <<streaming, response_text, tool_output, chats, sent>>

\* lines 730-741: the second call, its answer yielded after a newline;
\* lines 751-761 and 765-766: the second call, its answer through
\* extract_think into the JSON response
SecondChat(t) ==
    /\ handler[t] = "branch"
    /\ Truthy(tool_output[t])
    /\ \E r \in SecondResponses, raised \in BOOLEAN :
          LET final_response_text == IF raised THEN SecondaryError(ChatError) ELSE r
          IN  /\ chats' = [chats EXCEPT ![t] =
                              Append(@, [messages |-> SecondMessages(Prompt, response_text[t],
                                                                     tool_output[t]),
                                         stream |-> FALSE, raised |-> raised])]
              /\ sent' = [sent EXCEPT ![t] =
                             IF streaming[t] THEN @ \o <<Newline>> \o final_response_text
                             ELSE extract_think(final_response_text)]
    /\ handler' = [handler EXCEPT ![t] = "done"]
    /\ UNCHANGED <<shared, frame, streaming, response_text, tool_output>>

\* line 730 not taken: the stream ends; lines 762-766: the first response
\* through extract_think into the JSON response
NoSecondChat(t) ==
    /\ handler[t] = "branch"
    /\ ~Truthy(tool_output[t])
    /\ sent' = [sent EXCEPT ![t] =
                   IF streaming[t] THEN @ ELSE extract_think(response_text[t])]
    /\ handler' = [handler EXCEPT ![t] = "done"]
    /\ UNCHANGED <<shared, frame, streaming, response_text, tool_output, chats>>

\* the request is over: the response is complete, or the fault has been raised
Respond(t) ==
    /\ handler[t] \in {"done", "fault"}
    /\ handler' = [handler EXCEPT ![t] = "idle"]
    /\ streaming' = [streaming EXCEPT ![t] = FALSE]
    /\ response_text' = [response_text EXCEPT ![t] = <<>>]
    /\ tool_output' = [tool_output EXCEPT ![t] = None]
    /\ chats' = [chats EXCEPT ![t] = <<>>]
    /\ sent' = [sent EXCEPT ![t] = <<>>]
    /\ UNCHANGED <<shared, frame>>

NextSend ==
    \E t \in Threads :
        \/ Receive(t)
        \/ FirstChat(t)
        \/ ToolCall(t)
        \/ InstallLine(t)
        \/ BeginAttempt(t)
        \/ Redirect(t)
        \/ ExecStep(t)
        \/ EndAttempt(t)
        \/ Format(t)
        \/ AfterTool(t)
        \/ ToolFault(t)
        \/ SecondChat(t)
        \/ NoSecondChat(t)
        \/ Respond(t)

\* one request at a time through send_prompt
SpecSend == Init /\ [][NextSend]_vars

----------------------------------------------------------------------------
(* Reading an invocation *)

Range(q) == {q[i] : i \in 1..Len(q)}

\* the lines of the iteration log and the marker, in the words of the
\* specification
SaysExecuting(n) == "Iteration " \o ToString(n) \o ": Executing code...\n"
SaysErrorOrEmpty(n) == "Iteration " \o ToString(n) \o " produced an error or empty output.\n"
SaysSuccessful(n) == "Iteration " \o ToString(n) \o " successful.\n"
SaysRaised(n, msg) == "Iteration " \o ToString(n) \o " raised an exception: " \o msg \o "\n"
SaysFinalOutput == "\nFinal Output:\n"

\* the invocation of thread t found a block
FoundBlock(t) == pc[t] \notin {"idle"} /\ ~(pc[t] = "returned" /\ result[t] = None)

\* the text has no fence that is followed by one of the two tags
NoTaggedFence(txt) ==
    ~\E i \in 1..Len(txt) : i < Len(txt) /\ txt[i] = Fence /\ txt[i + 1] \in Tags

\* the pieces of a report between the Final Output marker and the closing tags
FinalOutputOf(report) ==
    LET k == Min({i \in 1..Len(report) : report[i] = SaysFinalOutput})
    IN  SubSeq(report, k + 1, Len(report) - 1)

\* the pieces of a report between the opening tags and the Final Output marker
LogOf(report) ==
    LET k == Min({i \in 1..Len(report) : report[i] = SaysFinalOutput})
    IN  SubSeq(report, 2, k - 1)

\* attempt i of thread t was marked successful in the log
MarkedSuccessful(t, i) == SaysSuccessful(i) \in Range(iteration_log[t])

----------------------------------------------------------------------------
(* C1 *)

\* C1: whenever the text given to extract_tool_call has no fence opened with
\* the tag tool_code or python, the invocation returns None at once: it is in
\* no state but returned, its result is None, and it has called neither
\* find_spec nor pip nor exec.
C1_NoBlockReturnsNone ==
    \A t \in Threads :
        (pc[t] # "idle" /\ NoTaggedFence(text[t]))
            => /\ pc[t] = "returned"
               /\ result[t] = None
               /\ calls[t] = NoCalls

\* a text with fences, none of them tagged, has returned None
C1_Witness ==
    \E t \in Threads :
        /\ pc[t] = "returned"
        /\ NoTaggedFence(text[t])
        /\ Cardinality({i \in 1..Len(text[t]) : text[t][i] = Fence}) >= 2
        /\ result[t] = None

----------------------------------------------------------------------------
(* C2 *)

\* every execution of the invocation so far ended with one and the same
\* exception, of a class the loop catches (one derived from Exception)
SameExceptionEveryRun(t) ==
    /\ runs[t] # <<>>
    /\ \A i \in 1..Len(runs[t]) : runs[t][i].exc = runs[t][1].exc
    /\ runs[t][1].exc # NoExc
    /\ Catches(runs[t][1].exc)

----------------------------------------------------------------------------
(* C3 *)

\* the attempts of thread t marked successful
Successes(t) == {i \in 1..max_attempts : MarkedSuccessful(t, i)}

\* what holds of the loop in every state
C3_LoopState ==
    \A t \in Threads :
        /\ attempts[t] <= max_attempts
        /\ calls[t].exec <= max_attempts
        /\ calls[t].exec \in {attempts[t], attempts[t] - 1}
        \* nothing runs after a successful attempt
        /\ \A i \in Successes(t) :
              /\ calls[t].exec = i
              /\ attempts[t] = i
              /\ pc[t] \in {"format", "returned"}
        \* at the return: the first success, or the whole budget
        /\ (pc[t] = "returned" /\ result[t] # None)
              => /\ calls[t].exec =
                        IF Successes(t) # {} THEN Min(Successes(t)) ELSE max_attempts
                 /\ MarkedSuccessful(t, 1)
                        => LogOf(result[t]) = <<SaysExecuting(1), SaysSuccessful(1)>>

\* each pass through the loop test either starts the next attempt, one more
\* than the last, or leaves the loop; an ended attempt never starts again
C3_LoopStep ==
    \A t \in Threads :
        /\ (pc[t] = "loop" /\ pc'[t] # "loop")
              => \/ pc'[t] = "redirect" /\ attempts'[t] = attempts[t] + 1
                 \/ pc'[t] = "format" /\ attempts'[t] = attempts[t]
        /\ (pc[t] \in {"redirect", "exec", "restore", "format"} /\ pc'[t] # "idle")
              => attempts'[t] = attempts[t]

----------------------------------------------------------------------------
(* C4 *)

\* attempt i of thread t was marked as a failure in the log
MarkedFailure(t, i) ==
    \/ SaysErrorOrEmpty(i) \in Range(iteration_log[t])
    \/ SaysRaised(i, runs[t][i].exc[2]) \in Range(iteration_log[t])

\* the exception (if any) is one the loop classifies
Classified(e) == e[1] \notin {"SystemExit", "KeyboardInterrupt", "GeneratorExit"}

AllSpace(out) == \A j \in 1..Len(out) : out[j] = Newline

----------------------------------------------------------------------------
(* C5 *)

\* C5 as claimed: every attempt in which the executed code raised, whatever
\* the class of the exception, is in the log as a raised-an-exception failure
\* and the exception does not leave extract_tool_call.
C5_AsClaimed ==
    \A t \in Threads : \A i \in 1..Len(runs[t]) :
        runs[t][i].exc # NoExc
            => /\ pc[t] # "escaped"
               /\ SaysRaised(i, runs[t][i].exc[2]) \in Range(iteration_log[t])

----------------------------------------------------------------------------
(* C6 *)

\* C6 as claimed: whatever the dependency step does, an invocation that found
\* a block does not end before its first execution attempt.
C6_AsClaimed ==
    \A t \in Threads :
        (FoundBlock(t) /\ pc[t] \in {"returned", "escaped"}) => calls[t].exec >= 1

----------------------------------------------------------------------------
(* C7 *)

Executing(t) == pc[t] \in {"exec", "restore"}

\* C7: with one invocation at a time, sys.stdout is the buffer of an attempt
\* while that attempt executes and at no other time: whenever no attempt is
\* executing, whether the last one returned or raised (caught or not),
\* sys.stdout is the console, the stream in effect before the attempt, which
\* is also the stream every attempt saved.
C7_StdoutScoped ==
    \A t \in Threads :
        /\ Executing(t) => (sys_stdout = StringIO(t) /\ old[t] = Console)
        /\ (\A u \in Threads : ~Executing(u)) => sys_stdout = Console

\* an attempt has ended by an exception and sys.stdout is the console again
C7_Witness ==
    \E t \in Threads :
        /\ pc[t] \in {"loop", "escaped"}
        /\ runs[t] # <<>>
        /\ runs[t][Len(runs[t])].exc # NoExc
        /\ sys_stdout = Console

----------------------------------------------------------------------------
(* C8 *)

\* the program run to its end or to its first exception, on its own
RECURSIVE RunAlone(_, _, _)
RunAlone(prog, g, inst) ==
    IF prog = <<>> THEN [out |-> <<>>, exc |-> NoExc]
    ELSE LET e == Effect(Head(prog), g, inst)
         IN  IF e.exc # NoExc THEN [out |-> e.out, exc |-> e.exc]
             ELSE LET rest == RunAlone(Tail(prog), e.ns, inst)
                  IN  [out |-> e.out \o rest.out, exc |-> rest.exc]

\* the report of the loop run on its own on code that neither reads nor
\* writes the namespace, from attempt n on
RECURSIVE SoloReport(_, _, _, _)
SoloReport(c, n, log, out) ==
    IF n > max_attempts THEN Report(log, out)
    ELSE LET r == RunAlone(Program(c), {}, Preinstalled)
             log2 == Append(log, SaysExecuting(n)) \o OutcomeLines(n, r.exc, r.out)
             out2 == NextOutput(r.exc, r.out, out)
         IN  IF Outcome(r.exc, r.out) = "successful" THEN Report(log2, out2)
             ELSE SoloReport(c, n + 1, log2, out2)

\* C8 as claimed: with invocations interleaving in threads on blocks that do
\* not touch the namespace, every returned report is the report the same
\* block gives when run alone, and once no invocation is executing sys.stdout
\* is the console.
C8_AsClaimed ==
    /\ \A t \in Threads :
          (pc[t] = "returned" /\ result[t] # None)
              => result[t] = SoloReport(code[t], 1, <<>>, <<>>)
    /\ (\A t \in Threads : pc[t] \in {"idle", "returned", "escaped"})
              => sys_stdout = Console

----------------------------------------------------------------------------
(* C9 *)

\* what the attempt recorded as r handed to output
OutputOfRun(r) == IF r.exc = NoExc THEN r.captured ELSE <<"Error", ": ", r.exc[2]>>

\* C9: in a returned report, what follows the Final Output marker is the
\* captured output of the last attempt executed, or "Error: " and its
\* message when that attempt raised, never the output of an earlier attempt,
\* and the report is the display wrapper around the iteration log, the
\* marker and that output.
C9_FinalOutputIsLastAttempt ==
    \A t \in Threads :
        (pc[t] = "returned" /\ result[t] # None)
            => LET last == OutputOfRun(runs[t][Len(runs[t])])
               IN  /\ Len(runs[t]) = calls[t].exec
                   /\ FinalOutputOf(result[t]) = last
                   /\ result[t] = <<PreOpen>> \o iteration_log[t]
                                    \o <<SaysFinalOutput>> \o last \o <<PreClose>>

\* three failed attempts, the third with another output than the first, and
\* the report returned
C9_Witness ==
    \E t \in Threads :
        /\ pc[t] = "returned"
        /\ Len(runs[t]) = 3
        /\ Successes(t) = {}
        /\ OutputOfRun(runs[t][1]) # OutputOfRun(runs[t][3])

----------------------------------------------------------------------------
(* C10 *)

InLoop(t) ==
    \/ pc[t] \in {"loop", "redirect", "exec", "restore", "format"}
    \/ pc[t] = "returned" /\ result[t] # None

\* C10: at every point of the loop the log is, for n = 1, 2, ... up to the
\* number of attempts started, the Executing line of n followed, unless
\* attempt n is still running, by one outcome line of n (error or empty
\* output, successful, or raised an exception with the message of the
\* exception attempt n raised); no other line is in it, and a successful line
\* is the last line of the log.
C10_LogShape ==
    \A t \in Threads :
        InLoop(t)
            => LET log == iteration_log[t]
                   n == attempts[t]
                   running == pc[t] \in {"redirect", "exec", "restore"}
               IN  /\ Len(log) = 2 * n - (IF running THEN 1 ELSE 0)
                   /\ Len(runs[t]) = n - (IF running THEN 1 ELSE 0)
                   /\ \A k \in 1..n : log[2 * k - 1] = SaysExecuting(k)
                   /\ \A k \in 1..Len(runs[t]) :
                         /\ log[2 * k] \in {SaysErrorOrEmpty(k), SaysSuccessful(k),
                                            SaysRaised(k, runs[t][k].exc[2])}
                         /\ log[2 * k] = SaysRaised(k, runs[t][k].exc[2])
                                <=> runs[t][k].exc # NoExc
                         /\ log[2 * k] = SaysSuccessful(k) => 2 * k = Len(log)

\* the third attempt is running after an attempt that raised and the log
\* holds five lines
C10_Witness ==
    \E t \in Threads :
        /\ pc[t] = "exec"
        /\ attempts[t] = 3
        /\ Len(iteration_log[t]) = 5
        /\ runs[t][1].exc # NoExc

----------------------------------------------------------------------------
(* C11 *)

\* the first fence followed by a tag and, later, by a closing fence
FirstOpening(txt) ==
    Min({i \in 1..Len(txt) : /\ i < Len(txt)
                             /\ txt[i] = Fence
                             /\ txt[i + 1] \in Tags
                             /\ \E j \in (i + 2)..Len(txt) : txt[j] = Fence})

HasBlock(txt) ==
    \E i \in 1..Len(txt) : /\ i < Len(txt)
                           /\ txt[i] = Fence
                           /\ txt[i + 1] \in Tags
                           /\ \E j \in (i + 2)..Len(txt) : txt[j] = Fence

\* the nearest fence after the first opening and its tag
FirstClosing(txt) == Min({j \in (FirstOpening(txt) + 2)..Len(txt) : txt[j] = Fence})

\* the number of fenced blocks of the text, one after the other
RECURSIVE BlockCount(_)
BlockCount(txt) ==
    IF ~HasBlock(txt) THEN 0
    ELSE 1 + BlockCount(SubSeq(txt, FirstClosing(txt) + 1, Len(txt)))

FirstBlockBody(txt) == SubSeq(txt, FirstOpening(txt) + 2, FirstClosing(txt) - 1)
AfterFirstBlock(txt) == SubSeq(txt, FirstClosing(txt) + 1, Len(txt))
UpToFirstBlock(txt) == SubSeq(txt, 1, FirstClosing(txt))

\* the lexemes of s that are not whitespace
RECURSIVE Words(_)
Words(s) ==
    IF s = <<>> THEN <<>>
    ELSE IF IsSpace(Head(s)) THEN Words(Tail(s)) ELSE <<Head(s)>> \o Words(Tail(s))

\* C11: whenever the text of an invocation carries two or more fenced
\* tool_code/python blocks, the code of the invocation is the body of the
\* first block (first tagged fence to the nearest following fence), every
\* name given to find_spec comes from an import of that body, every statement
\* exec has run in any attempt is a statement of that body, no statement
\* found only in a later block has run, an attempt that has executed has
\* run a statement of it, and the search gives the same code for
\* the text cut after the first block, so the report cannot depend on what
\* follows.
C11_OnlyFirstBlock ==
    \A t \in Threads :
        (pc[t] # "idle" /\ BlockCount(text[t]) >= 2) =>
            LET body == FirstBlockBody(text[t])
                later == AfterFirstBlock(text[t])
            IN  /\ Words(code[t]) = Words(body)
                /\ \A k \in 1..Len(calls[t].ran) :
                       /\ calls[t].ran[k] \in Range(body)
                       /\ calls[t].ran[k] \notin Range(later) \ Range(body)
                /\ \A k \in 1..Len(calls[t].probed) :
                       \E s \in Range(body) \cap (ImportStmts \cup FromStmts) :
                           calls[t].probed[k] = DottedName(s)[1]
                /\ calls[t].exec >= 1 => calls[t].ran # <<>> \/ pc[t] \in {"exec", "redirect"}
                /\ re_search(UpToFirstBlock(text[t])).group1 = re_search(text[t]).group1

\* a three-attempt invocation on a text of at least two blocks has returned
\* a report after running the first block three times
C11_Witness ==
    \E t \in Threads :
        /\ BlockCount(text[t]) >= 2
        /\ pc[t] = "returned"
        /\ calls[t].exec = 3
        /\ Len(calls[t].ran) = 3
        /\ Range(AfterFirstBlock(text[t])) \cap Statements # {}

----------------------------------------------------------------------------
(* C14 *)

\* the statement thread t is about to run
AboutToRun(t, stmt) ==
    /\ pc[t] = "exec"
    /\ Compiles(code[t])
    /\ ip[t] <= Len(Program(code[t]))
    /\ Program(code[t])[ip[t]] = stmt

\* what holds of the namespace in every state
C14_NsState ==
    \A t \in Threads :
        \* a binding made by a statement that has run is in the namespace
        /\ \A k \in 1..Len(calls[t].ran) :
               calls[t].ran[k] \in {AssignV, InitOrPrintV} => "v" \in ns
        \* the block that binds v when it is unbound and prints it otherwise
        \* prints it in every attempt after the first
        /\ Program(code[t]) = <<InitOrPrintV>>
               => \A i \in 2..Len(runs[t]) : runs[t][i].captured = <<"1", Newline>>

\* what holds of every step
C14_NsStep ==
    /\ ns' # ns =>
           /\ ns \subseteq ns'
           /\ \E t \in Threads : /\ pc[t] = "exec"
                                  /\ Len(calls'[t].ran) = Len(calls[t].ran) + 1
    \* a bound name is found by the statement that reads it, whichever
    \* attempt or invocation bound it
    /\ \A t \in Threads :
           (/\ AboutToRun(t, PrintV)
            /\ "v" \in ns
            /\ Len(calls'[t].ran) = Len(calls[t].ran) + 1)
               => exc'[t] = NoExc /\ ip'[t] = ip[t] + 1

\* C14: the namespace is changed by no step of extract_tool_call but the
\* running of a statement by exec, and such a step only adds to it: nothing
\* is reset between attempts or between invocations. A name bound by a
\* statement that has run, in an attempt that raised or failed as well, is in
\* the namespace from then on, and a later attempt or invocation that reads
\* it finds it; the block that binds v when it is unbound and prints it
\* otherwise prints it in every attempt after the first.
C14_NamespacePersists == [](C14_NsState) /\ [][C14_NsStep]_vars

\* the same code was classified a failure in attempt 1 and successful in
\* attempt 2, by the binding attempt 1 left behind
C14_Witness ==
    \E t \in Threads :
        /\ pc[t] = "returned"
        /\ Program(code[t]) = <<InitOrPrintV>>
        /\ SaysErrorOrEmpty(1) \in Range(iteration_log[t])
        /\ SaysSuccessful(2) \in Range(iteration_log[t])
        /\ runs[t][1].captured = <<>>
        /\ "v" \in ns

----------------------------------------------------------------------------
(* C15 *)

\* the import and from statements of the code, in order
RECURSIVE ImportsOf(_)
ImportsOf(c) ==
    IF c = <<>> THEN <<>>
    ELSE IF Head(c) \in ImportStmts \cup FromStmts
         THEN <<Head(c)>> \o ImportsOf(Tail(c))
         ELSE ImportsOf(Tail(c))

\* the invocation of thread t is past dependency resolution
Resolved(t) ==
    \/ pc[t] \in {"loop", "redirect", "exec", "restore", "format"}
    \/ pc[t] = "returned" /\ result[t] # None
    \/ pc[t] = "escaped" /\ calls[t].exec >= 1

\* what holds of dependency resolution in every state
C15_ResolvedState ==
    \A t \in Threads :
        \* nothing has been executed while the pass is running
        /\ pc[t] = "install" => calls[t].exec = 0 /\ calls[t].ran = <<>>
        \* after the pass: one lookup for each import of the code, in order,
        \* whatever the number of attempts
        /\ Resolved(t) =>
               /\ calls[t].find_spec = Len(ImportsOf(code[t]))
               /\ Len(calls[t].probed) = Len(ImportsOf(code[t]))
               /\ \A k \in 1..Len(calls[t].probed) :
                      calls[t].probed[k] = DottedName(ImportsOf(code[t])[k])[1]
               /\ calls[t].pip <= calls[t].find_spec

\* what holds of every step
C15_ResolvedStep ==
    \A t \in Threads :
        \* the pass is entered from the call only
        /\ (pc'[t] = "install" /\ pc[t] # "install") => pc[t] = "idle"
        \* once left, it is not entered again, and nothing is looked up
        \* or installed
        /\ Resolved(t) =>
               /\ pc'[t] # "install"
               /\ pc'[t] # "idle" =>
                      /\ calls'[t].find_spec = calls[t].find_spec
                      /\ calls'[t].pip = calls[t].pip
                      /\ calls'[t].probed = calls[t].probed
        \* modules are installed during the pass only
        /\ installed' # installed => \E u \in Threads : pc[u] = "install"

\* C15: in an invocation that found a block, dependency resolution runs
\* once, before the first execution attempt: nothing is executed while it
\* runs, it is entered from the call only and never again once the loop has
\* begun, and from then on find_spec and pip are not called, so that at every
\* attempt find_spec has been called once for each import of the code and a
\* module that could not be installed stays missing.
C15_ResolutionOnce == [](C15_ResolvedState) /\ [][C15_ResolvedStep]_vars

\* the third attempt is running on a module that was looked up once, before
\* attempt 1, and could not be installed
C15_Witness ==
    \E t \in Threads :
        /\ AboutToRun(t, ImportPkg)
        /\ attempts[t] = 3
        /\ calls[t].find_spec = 1
        /\ calls[t].pip = 1
        /\ "pkg" \notin installed

----------------------------------------------------------------------------
(* C12 *)

\* the iteration log of the report is that of a loop that has ended: its
\* last line marks the last attempt begun as successful, or marks the third
\* attempt as failed
LoopCompleted(report) ==
    /\ SaysFinalOutput \in Range(report)
    /\ LET log == LogOf(report)
           n == Cardinality({i \in 1..3 : SaysExecuting(i) \in Range(log)})
       IN  /\ n >= 1
           /\ log[Len(log)] # SaysExecuting(n)
           /\ log[Len(log)] = SaysSuccessful(n) \/ n = 3

\* what holds of the model invocations of a request in every state
C12_ChatsState ==
    \A t \in Threads :
        /\ Len(chats[t]) <= 2
        /\ Len(chats[t]) >= 1 =>
               chats[t][1].messages = <<[role |-> "user", content |-> Prompt]>>
        \* no invocation while extract_tool_call is running, none after a fault
        /\ pc[t] # "idle" => Len(chats[t]) = 1
        /\ handler[t] = "fault" => Len(chats[t]) = 1
        \* at the end: a second invocation exactly when there was a report
        /\ handler[t] = "done" => (Len(chats[t]) = 2 <=> tool_output[t] # None)
        /\ Len(chats[t]) = 2 =>
               /\ handler[t] = "done"
               /\ LoopCompleted(tool_output[t])
               /\ chats[t][2].messages =
                      <<[role |-> "user", content |-> Prompt],
                        [role |-> "assistant", content |-> response_text[t]],
                        [role |-> "user", content |-> tool_output[t]]>>
               /\ chats[t][1].stream = streaming[t]
               /\ ~chats[t][1].raised \/ ~streaming[t]
               /\ streaming[t] =>
                      SubSeq(sent[t], 1, Len(response_text[t])) = response_text[t]

\* what holds of every step
C12_ChatsStep ==
    \A t \in Threads :
        \* invocations are added one at a time
        /\ (chats'[t] # chats[t] /\ chats'[t] # <<>>) =>
               /\ Len(chats'[t]) = Len(chats[t]) + 1
               /\ SubSeq(chats'[t], 1, Len(chats[t])) = chats[t]
        \* the second one after extract_tool_call has returned a report
        /\ (Len(chats[t]) = 1 /\ Len(chats'[t]) = 2) =>
               /\ pc[t] = "idle"
               /\ tool_output[t] # None
               /\ tool_output'[t] = tool_output[t]
        \* tool_output is what extract_tool_call returned
        /\ tool_output'[t] # tool_output[t] =>
               \/ pc[t] = "returned" /\ tool_output'[t] = result[t]
               \/ handler'[t] = "idle" /\ tool_output'[t] = None

\* C12: in a request to /send, streamed or not, the model is invoked at
\* most twice; the first message list is the user prompt alone; no invocation
\* is made while extract_tool_call is running; the request ends with a
\* second invocation exactly when extract_tool_call returned a report for
\* the first response, and that invocation is made after extract_tool_call
\* has returned, with a report whose iteration log is complete, on the
\* messages user prompt, assistant first response, user report, in this
\* order.
C12_SecondInvocation == [](C12_ChatsState) /\ [][C12_ChatsStep]_vars

\* a streamed request has made its second invocation on the report of
\* three failed attempts
C12_Witness ==
    \E t \in Threads :
        /\ streaming[t]
        /\ handler[t] = "done"
        /\ Len(chats[t]) = 2
        /\ SaysErrorOrEmpty(3) \in Range(tool_output[t])
        /\ chats[t][2].messages[3].content = tool_output[t]

----------------------------------------------------------------------------
(* C13 *)

\* the error string that stands for the k-th model invocation of a request
SaysChatError(k) ==
    IF k = 1 THEN "Error calling model: " ELSE "Error in secondary inference: "

\* C13: whenever a model invocation of a request has failed, the first or
\* the second one, streamed or not, the handling of the request is not left
\* by a fault, and the response the client has received at the end carries
\* the error string in place of the model's answer.
C13_AsClaimed ==
    \A t \in Threads :
        \A k \in 1..Len(chats[t]) :
            chats[t][k].raised =>
                /\ handler[t] # "fault"
                /\ handler[t] = "done" => SaysChatError(k) \in Range(sent[t])

====
